---- MODULE Spec2Model ----
(***************************************************************************)
(* A model of rotconv.py: main() reads a plate rotation file, groups the   *)
(* records per moving plate, fixes the plate processing order, and writes  *)
(* the reformatted rotation file, the error report and the plate acronym   *)
(* table.  One action per statement block of main(); the program counter   *)
(* pc names the block that runs next.                                      *)
(*                                                                         *)
(* The gptools library (readROT, generatePlateIdDict, detect_xover and the *)
(* format_* helpers) is imported by rotconv.py and is not part of it; the  *)
(* operators that stand for it follow the specification's description of   *)
(* the library's contract.                                                 *)
(***************************************************************************)
EXTENDS Integers, Sequences, FiniteSets, TLC

\* Longest input file (number of lines) the runs draw.
MaxLines == 2
\* Largest set of unique plate ids the ordering runs (SpecOrder) draw.
MaxPlates == 5

VARIABLES
    OUTFILEFORMAT,      \* args.outformat (line 107)
    ageFilterOld,       \* args.ageFilterOld (lines 74 to 79, 99)
    rotLines,           \* input_file.readlines() (line 149)
    pc,                 \* the block of main() that runs next
    entryID,            \* line 163
    inputRawRotDict,    \* entryID -> readROT(line) (line 166)
    uniquePIDsInput,    \* line 179
    infilePlateIdDict,  \* plate id -> stage list (line 187)
    mprsDict,           \* plate id -> MPRS metadata (line 187)
    plateIDList,        \* line 204
    absRefPIDs,         \* line 213
    cardinalPIDList1,   \* lines 215, 220: decimal strings of the ids >= 100
    newPIDList,         \* line 222
    plateIdx,           \* position of PlateID1 in newPIDList (loop of line 250)
    stageIdx,           \* position of stage in stageList (loop of line 324)
    outfile,            \* the writes to the main output file, in order
    outfileClosed,      \* line 424
    zeroRotations,      \* line 133
    futureRotations,    \* line 134
    replacedRotations,  \* line 135
    errorfile,          \* the writes to the error report, in order
    plateAcroFile,      \* the writes to the plate acronym table, in order
    acroIdx,            \* position in cardinalPIDList1 (loop of line 460)
    replacedIDs         \* history: entry ids of the stages detect_xover altered

vars == <<OUTFILEFORMAT, ageFilterOld, rotLines, pc, entryID, inputRawRotDict, uniquePIDsInput,
          infilePlateIdDict, mprsDict, plateIDList, absRefPIDs, cardinalPIDList1,
          newPIDList, plateIdx, stageIdx, outfile, outfileClosed, zeroRotations,
          futureRotations, replacedRotations, errorfile, plateAcroFile, acroIdx,
          replacedIDs>>

(***************************************************************************)
(* Inputs                                                                  *)
(***************************************************************************)

\* The three MPRS metadata tokens main() looks up (lines 297, 303, 308).
MetaKeys == {"MPRS:code", "MPRS:name", "FPID:code"}

\* One line of the input file. ok = FALSE: a numeric field of the line cannot
\* be converted. toks: the metadata tokens its comment carries.
Line(ok, pid, age, lat, lon, angle, fp, toks, inactive) ==
    [ok |-> ok, pid |-> pid, age |-> age, lat |-> lat, lon |-> lon,
     angle |-> angle, PlateID2 |-> fp, toks |-> toks, inactive |-> inactive]

\* The format selectors the runs draw: the extended one, the legacy one, and
\* one that is neither.
Formats == {"GROT", "ROT", "PLATES4"}

\* The default of -s/--startage (line 75), and the oldest ages the runs of
\* SpecStartAge draw: below, at and above the ages of the lines, and the default.
DefaultStartAge == 4000
StartAges == {0, 5, 10, DefaultStartAge}

\* The line contents the runs draw. Plate 2 is an absolute reference plate
\* (id < 100); 102 and 1011 are ordered differently as numbers and as strings.
BaseLines ==
    {Line(TRUE, p, 10, 1, 1, 1, 0, MetaKeys, FALSE) : p \in {2, 102, 1011}}

\* Every combination of age sign and zero/non-zero latitude, longitude and
\* angle; the inactive ones with two of the poles.
PoleLines ==
    {Line(TRUE, 102, a, po[1], po[2], po[3], 0, MetaKeys, FALSE) :
        a \in {-5, 0, 10},
        po \in {<<0, 0, 0>>, <<0, 1, 0>>, <<1, 0, 0>>, <<0, 0, 1>>}}
    \cup
    {Line(TRUE, 102, a, po[1], po[2], po[3], 0, MetaKeys, TRUE) :
        a \in {-5, 0, 10}, po \in {<<0, 0, 0>>, <<1, 0, 0>>}}

\* Comments that lack one, or all, of the metadata tokens.
MetaLines ==
    {Line(TRUE, 102, 10, 1, 1, 1, 0, t, FALSE) :
        t \in {MetaKeys \ {"MPRS:code"}, MetaKeys \ {"MPRS:name"},
               MetaKeys \ {"FPID:code"}, {}}}
    \cup
    {Line(TRUE, 2, 10, 1, 1, 1, 0, t, FALSE) : t \in {MetaKeys \ {"MPRS:code"}, {}}}

\* A stage whose fixed plate differs from the other stages' (a crossover).
XoverLines == {Line(TRUE, 102, 0, 1, 1, 1, 1, MetaKeys, FALSE)}

\* A line with an unconvertible numeric field.
BadLines == {Line(FALSE, 0, 0, 0, 0, 0, 0, {}, FALSE)}

Lines == BaseLines \cup PoleLines \cup MetaLines \cup XoverLines \cup BadLines

\* The plate id sets the ordering runs draw from.
PlateIDUniverse == {1, 2, 20, 99, 100, 101, 102, 1000, 1011}

SeqsUpTo(S, n) == UNION {[1..k -> S] : k \in 0..n}

(***************************************************************************)
(* Helpers: Python's str(), int(), sorted() and list.sort()                *)
(***************************************************************************)

\* str(i) of a non-negative int: its decimal digits, most significant first.
\* A digit stands for its character; '0' < '1' < ... < '9' as for the digits.
RECURSIVE Str(_)
Str(n) == IF n < 10 THEN <<n>> ELSE Append(Str(n \div 10), n % 10)

\* int(s) of a decimal string.
RECURSIVE IntOf(_)
IntOf(s) ==
    IF Len(s) = 0 THEN 0
    ELSE 10 * IntOf(SubSeq(s, 1, Len(s) - 1)) + s[Len(s)]

\* s < t for Python strings: the first differing character decides, and a
\* proper prefix is smaller.
RECURSIVE StrLess(_, _)
StrLess(s, t) ==
    IF Len(t) = 0 THEN FALSE
    ELSE IF Len(s) = 0 THEN TRUE
    ELSE IF Head(s) # Head(t) THEN Head(s) < Head(t)
    ELSE StrLess(Tail(s), Tail(t))

\* Stable insertion of x into a sorted list: after the elements not larger.
RECURSIVE InsertStr(_, _)
InsertStr(x, l) ==
    IF Len(l) = 0 THEN <<x>>
    ELSE IF StrLess(x, Head(l)) THEN <<x>> \o l
    ELSE <<Head(l)>> \o InsertStr(x, Tail(l))

RECURSIVE InsertNum(_, _)
InsertNum(x, l) ==
    IF Len(l) = 0 THEN <<x>>
    ELSE IF x < Head(l) THEN <<x>> \o l
    ELSE <<Head(l)>> \o InsertNum(x, Tail(l))

\* list.sort() of a list of strings.
RECURSIVE SortStr(_)
SortStr(l) ==
    IF Len(l) = 0 THEN <<>>
    ELSE InsertStr(l[Len(l)], SortStr(SubSeq(l, 1, Len(l) - 1)))

\* sorted() of a list of ints.
RECURSIVE SortNum(_)
SortNum(l) ==
    IF Len(l) = 0 THEN <<>>
    ELSE InsertNum(l[Len(l)], SortNum(SubSeq(l, 1, Len(l) - 1)))

\* [ f(x) for x in l if keep(x) ] for the two filters of lines 213 and 214.
RECURSIVE Below100(_)
Below100(l) ==
    IF Len(l) = 0 THEN <<>>
    ELSE IF Head(l) < 100 THEN <<Head(l)>> \o Below100(Tail(l))
    ELSE Below100(Tail(l))

RECURSIVE From100(_)
From100(l) ==
    IF Len(l) = 0 THEN <<>>
    ELSE IF Head(l) >= 100 THEN <<Head(l)>> \o From100(Tail(l))
    ELSE From100(Tail(l))

Range(l) == {l[i] : i \in 1..Len(l)}

\* list(s) of a set: its elements once each, in an order the set decides.
ListsOf(S) ==
    {l \in [1..Cardinality(S) -> S] : \A i, j \in 1..Cardinality(S) : l[i] = l[j] => i = j}

(***************************************************************************)
(* The gptools library, as the specification describes it                  *)
(***************************************************************************)

\* readROT: the structured record of a line (its fields, converted).
readROT(line) ==
    [pid |-> line.pid, age |-> line.age, lat |-> line.lat, lon |-> line.lon,
     angle |-> line.angle, PlateID2 |-> line.PlateID2, toks |-> line.toks,
     inactive |-> line.inactive]

\* readROT fails with ParseError on a line with an unconvertible numeric field.
readROTRaises(line) == ~line.ok

\* generatePlateIdDict, the hierarchy: for each unique plate id the records of
\* that moving plate, in the order of the input file. id is the record's key
\* in inputRawRotDict, kept to tell the records apart.
RECURSIVE StagesOf(_, _, _)
StagesOf(raw, p, n) ==
    IF n = 0 THEN <<>>
    ELSE IF raw[n].pid = p
         THEN Append(StagesOf(raw, p, n - 1),
                     [id |-> n, age |-> raw[n].age, lat |-> raw[n].lat,
                      lon |-> raw[n].lon, angle |-> raw[n].angle,
                      PlateID2 |-> raw[n].PlateID2, toks |-> raw[n].toks,
                      inactive |-> raw[n].inactive])
         ELSE StagesOf(raw, p, n - 1)

PlateIdDictOf(raw, pids) ==
    [p \in pids |-> StagesOf(raw, p, Cardinality(DOMAIN raw))]

\* generatePlateIdDict, the metadata: the tokens of the plate's first record;
\* a plate whose first record carries none has no entry.
MprsDictOf(raw, pids) ==
    LET first(p) == PlateIdDictOf(raw, pids)[p][1]
    IN  [p \in {q \in pids : first(q).toks # {}} |->
            [k \in first(p).toks |-> ToString(<<k, p>>)]]

\* detect_xover: the positions of a stage list where the fixed plate differs
\* from the preceding stage's.
XoverPositions(stageList) ==
    {i \in 2..Len(stageList) : stageList[i].PlateID2 # stageList[i - 1].PlateID2}

\* detect_xover's repair of position i: the stage takes the preceding stage's
\* fixed plate, in place.
XoverRepair(stageList, i) ==
    [stageList EXCEPT ![i].PlateID2 = stageList[i - 1].PlateID2]

\* format_grot_mprs_comment, format_mprs_header, create_grot_bibinfo_section,
\* outputReporting.makeHeader: one piece of text each, a function of their
\* arguments.
format_grot_mprs_comment(toks) == ToString(<<"comment", toks>>)
format_mprs_header(fmt, pid, code, name, fcode) ==
    ToString(<<"mprs", pid, code, name, fcode>>)
create_grot_bibinfo_section == "@BIBINFO"
makeHeader(fmt) == ToString(<<"header", fmt>>)

(***************************************************************************)
(* main(): the pure parts                                                  *)
(***************************************************************************)

\* Line 176: int( Decimal( record[ 0 ] ) ) of every record; lines 178, 179.
UniquePIDs(raw) == {raw[e].pid : e \in DOMAIN raw}

\* Lines 213 to 215: the ids below 100 sorted as numbers, and the decimal
\* strings of the others, in the order of plateIDList.
AbsRefPIDs(pidList) == SortNum(Below100(pidList))
CardinalStrings(pidList) ==
    LET l == From100(pidList) IN [i \in 1..Len(l) |-> Str(l[i])]

\* Mutant: the ids sorted by numeric value.
RECURSIVE SortCardinalNumeric(_)
SortCardinalNumeric(strs) ==
    IF Len(strs) = 0 THEN <<>>
    ELSE LET rest == SortCardinalNumeric(SubSeq(strs, 1, Len(strs) - 1))
             x == strs[Len(strs)]
             k == Cardinality({i \in 1..Len(rest) : IntOf(rest[i]) <= IntOf(x)})
         IN  SubSeq(rest, 1, k) \o <<x>> \o SubSeq(rest, k + 1, Len(rest))

\* Line 220: cardinalPIDList1.sort(), a sort of strings.
SortCardinal(strs) == SortStr(strs)

\* Line 222: absRefPIDs + list( map( int, cardinalPIDList1 ) ).
NewPIDList(absRef, strs) == absRef \o [i \in 1..Len(strs) |-> IntOf(strs[i])]

\* Mutant: the stage list sorted by age (line 283 enabled).
RECURSIVE SortByAge(_)
SortByAge(l) ==
    IF Len(l) = 0 THEN <<>>
    ELSE LET rest == SortByAge(SubSeq(l, 1, Len(l) - 1))
             x == l[Len(l)]
             k == Cardinality({i \in 1..Len(rest) : rest[i].age <= x.age})
         IN  SubSeq(rest, 1, k) \o <<x>> \o SubSeq(rest, k + 1, Len(rest))
StageListSortedByAge(plateIdDict, pid) == SortByAge(plateIdDict[pid])

\* Lines 281 to 283: the plate's stage list as it is (the sort by age is
\* commented out).
StageListOf(plateIdDict, pid) == plateIdDict[pid]

\* Lines 295 to 310: the three metadata lookups and their fallbacks. The
\* fallbacks of code and fixed-plate code read slots 2 and 3 of the first
\* stage's comment.
HasMeta(mprs, pid, key) == pid \in DOMAIN mprs /\ key \in DOMAIN mprs[pid]
CommentSlot(stage, n) == ToString(<<"slot", n, stage.id>>)
MPlateCode(mprs, plateIdDict, pid) ==
    IF HasMeta(mprs, pid, "MPRS:code") THEN mprs[pid]["MPRS:code"]
    ELSE CommentSlot(plateIdDict[pid][1], 2)
MPlateName(mprs, pid) ==
    IF HasMeta(mprs, pid, "MPRS:name") THEN mprs[pid]["MPRS:name"] ELSE "FIXME"
FPlateCode(mprs, plateIdDict, pid) ==
    IF HasMeta(mprs, pid, "FPID:code") THEN mprs[pid]["FPID:code"]
    ELSE CommentSlot(plateIdDict[pid][1], 3)

\* Mutant: the header is left out in ROT format only.
WritesMPRSHeaderUnlessROT(fmt) == fmt # "ROT"

\* Lines 314 and 421: the per-plate header and the bibliography block are
\* written in GROT format only.
WritesMPRSHeader(fmt) == fmt = "GROT"
WritesBibliography(fmt) == fmt = "GROT"

\* Line 357: the six data columns.
FormatStageRotationData(PlateID1, stage) ==
    ToString(<<PlateID1, stage.age, stage.lat, stage.lon, stage.angle, stage.PlateID2>>)

\* sep.join( [a, b] ).
Join(sep, a, b) == <<a, sep, b>>

\* Mutant: the legacy branches are taken for "ROT" only.
FormatStageRotationROTOnly(fmt, rotationInactive, data, comment) ==
    IF rotationInactive
    THEN IF fmt = "ROT"
         THEN <<"999 0.0 0.0 0.0 0.0 999", " ", "#", " ">> \o Join(" ", data, comment) \o <<"\n">>
         ELSE <<"#">> \o Join(" ", data, comment) \o <<"\n">>
    ELSE IF fmt = "ROT"
         THEN Join(" ! ", data, comment) \o <<"\n">>
         ELSE Join(" ", data, comment) \o <<"\n">>

\* Lines 363 to 373: the text of a stage line, as its pieces. The literal of
\* line 368, "999 0.0 0.0 0.0 0.0 999 # ", is kept as its four parts.
FormatStageRotation(fmt, rotationInactive, data, comment) ==
    IF rotationInactive
    THEN IF fmt = "GROT"
         THEN <<"#">> \o Join(" ", data, comment) \o <<"\n">>
         ELSE <<"999 0.0 0.0 0.0 0.0 999", " ", "#", " ">> \o Join(" ", data, comment) \o <<"\n">>
    ELSE IF fmt = "GROT"
         THEN Join(" ", data, comment) \o <<"\n">>
         ELSE Join(" ! ", data, comment) \o <<"\n">>

\* Mutant: the second test reads Lon.
IsZeroRotationLon(stage) ==
    stage.age > 0 /\ stage.lat = 0 /\ stage.lon = 0 /\ stage.angle = 0

\* Line 397: float( Age ) > 0.0 and Lat == 0.0 and Lat == 0.0 and Angle == 0.0.
IsZeroRotation(stage) ==
    stage.age > 0 /\ stage.lat = 0 /\ stage.lat = 0 /\ stage.angle = 0

\* Mutant: an age of zero counts as a future rotation.
IsWrittenPositive(Age) == Age > 0

\* Line 412: not float( Age ) < 0.0.
IsWritten(Age) == ~(Age < 0)

\* One write to a file: what wrote it, for which plate and record, and the text.
Write(kind, pid, id, text) == [kind |-> kind, pid |-> pid, id |-> id, text |-> text]

\* Line 402.
ZeroEntry(PlateID1, stage, line) ==
    Write("zero", PlateID1, stage.id,
          <<"Zero rotation at ", ToString(stage.age), " Ma | ">> \o line)

\* Mutant: a future rotation is skipped and not logged.
StageOutputNoLog(out, fut, PlateID1, stage, line) ==
    IF stage.age >= 0
    THEN <<Append(out, [kind |-> "stage", pid |-> PlateID1, id |-> stage.id, text |-> line]), fut>>
    ELSE <<out, fut>>

\* Lines 412 to 418: the stage line goes to the output file, or a future
\* rotation is logged instead. The pair <<outfile, futureRotations>> after.
StageOutput(out, fut, PlateID1, stage, line) ==
    IF IsWritten(stage.age)
    THEN <<Append(out, Write("stage", PlateID1, stage.id, line)), fut>>
    ELSE <<out, Append(fut, Write("future", PlateID1, stage.id,
                                  <<"Future rotation skipped | ">> \o line))>>

\* Lines 436 to 446: the error report.
Banner == Write("banner", 0, 0, <<"\n", "=", "\n">>)
ErrorReport(replaced, zero, future) ==
    <<Write("title", 0, 0, <<"Rotation file errors during processing - produced by rotconv.py\n">>),
      Banner>> \o replaced \o <<Banner>> \o zero \o <<Banner>> \o future \o <<Banner>>

(***************************************************************************)
(* main(): the state machine                                               *)
(***************************************************************************)

\* The state at line 163: the files are open and empty, the lists are empty.
Blank ==
    /\ entryID = 0
    /\ inputRawRotDict = <<>>
    /\ uniquePIDsInput = {}
    /\ infilePlateIdDict = <<>>
    /\ mprsDict = <<>>
    /\ plateIDList = <<>>
    /\ absRefPIDs = <<>>
    /\ cardinalPIDList1 = <<>>
    /\ newPIDList = <<>>
    /\ plateIdx = 0
    /\ stageIdx = 0
    /\ outfile = <<>>
    /\ outfileClosed = FALSE
    /\ zeroRotations = <<>>
    /\ futureRotations = <<>>
    /\ replacedRotations = <<>>
    /\ errorfile = <<>>
    /\ plateAcroFile = <<>>
    /\ acroIdx = 0
    /\ replacedIDs = {}

Init ==
    /\ OUTFILEFORMAT \in Formats
    /\ ageFilterOld = DefaultStartAge
    /\ rotLines \in SeqsUpTo(Lines, MaxLines)
    /\ pc = "read"
    /\ Blank

\* Lines 164 to 166, one iteration: readROT's ParseError is not caught.
ReadLine ==
    /\ pc = "read"
    /\ entryID < Len(rotLines)
    /\ entryID' = entryID + 1
    /\ IF readROTRaises(rotLines[entryID + 1])
       THEN /\ pc' = "ParseError"
            /\ UNCHANGED inputRawRotDict
       ELSE /\ inputRawRotDict' = Append(inputRawRotDict, readROT(rotLines[entryID + 1]))
            /\ pc' = "read"
    /\ UNCHANGED <<OUTFILEFORMAT, ageFilterOld, rotLines, uniquePIDsInput, infilePlateIdDict, mprsDict,
                   plateIDList, absRefPIDs, cardinalPIDList1, newPIDList, plateIdx,
                   stageIdx, outfile, outfileClosed, zeroRotations, futureRotations,
                   replacedRotations, errorfile, plateAcroFile, acroIdx, replacedIDs>>

\* Lines 174 to 179, after the last line is read.
CollectPIDs ==
    /\ pc = "read"
    /\ entryID = Len(rotLines)
    /\ uniquePIDsInput' = UniquePIDs(inputRawRotDict)
    /\ pc' = "group"
    /\ UNCHANGED <<OUTFILEFORMAT, ageFilterOld, rotLines, entryID, inputRawRotDict, infilePlateIdDict,
                   mprsDict, plateIDList, absRefPIDs, cardinalPIDList1, newPIDList,
                   plateIdx, stageIdx, outfile, outfileClosed, zeroRotations,
                   futureRotations, replacedRotations, errorfile, plateAcroFile, acroIdx,
                   replacedIDs>>

\* Lines 187 and 197: the hierarchy and the metadata, then the file header.
GeneratePlateIdDict ==
    /\ pc = "group"
    /\ infilePlateIdDict' = PlateIdDictOf(inputRawRotDict, uniquePIDsInput)
    /\ mprsDict' = MprsDictOf(inputRawRotDict, uniquePIDsInput)
    /\ outfile' = Append(outfile, Write("header", 0, 0, <<makeHeader(OUTFILEFORMAT)>>))
    /\ pc' = "list"
    /\ UNCHANGED <<OUTFILEFORMAT, ageFilterOld, rotLines, entryID, inputRawRotDict, uniquePIDsInput,
                   plateIDList, absRefPIDs, cardinalPIDList1, newPIDList, plateIdx,
                   stageIdx, outfileClosed, zeroRotations, futureRotations,
                   replacedRotations, errorfile, plateAcroFile, acroIdx, replacedIDs>>

\* Line 204: plateIDList = list( uniquePIDsInput ).
ListPIDs ==
    /\ pc = "list"
    /\ plateIDList' \in ListsOf(uniquePIDsInput)
    /\ pc' = "split"
    /\ UNCHANGED <<OUTFILEFORMAT, ageFilterOld, rotLines, entryID, inputRawRotDict, uniquePIDsInput,
                   infilePlateIdDict, mprsDict, absRefPIDs, cardinalPIDList1, newPIDList,
                   plateIdx, stageIdx, outfile, outfileClosed, zeroRotations,
                   futureRotations, replacedRotations, errorfile, plateAcroFile, acroIdx,
                   replacedIDs>>

\* Lines 213 to 215.
SplitPIDs ==
    /\ pc = "split"
    /\ absRefPIDs' = AbsRefPIDs(plateIDList)
    /\ cardinalPIDList1' = CardinalStrings(plateIDList)
    /\ pc' = "sort"
    /\ UNCHANGED <<OUTFILEFORMAT, ageFilterOld, rotLines, entryID, inputRawRotDict, uniquePIDsInput,
                   infilePlateIdDict, mprsDict, plateIDList, newPIDList, plateIdx,
                   stageIdx, outfile, outfileClosed, zeroRotations, futureRotations,
                   replacedRotations, errorfile, plateAcroFile, acroIdx, replacedIDs>>

\* Lines 220 and 222.
SortPIDs ==
    /\ pc = "sort"
    /\ cardinalPIDList1' = SortCardinal(cardinalPIDList1)
    /\ newPIDList' = NewPIDList(absRefPIDs, cardinalPIDList1')
    /\ plateIdx' = 1
    /\ pc' = "plate"
    /\ UNCHANGED <<OUTFILEFORMAT, ageFilterOld, rotLines, entryID, inputRawRotDict, uniquePIDsInput,
                   infilePlateIdDict, mprsDict, plateIDList, absRefPIDs, stageIdx,
                   outfile, outfileClosed, zeroRotations, futureRotations,
                   replacedRotations, errorfile, plateAcroFile, acroIdx, replacedIDs>>

\* The loop variable of line 250.
PlateID1 == newPIDList[plateIdx]

\* Lines 250 to 318: the next plate's metadata and, in GROT format, its header.
PlateHeader ==
    /\ pc = "plate"
    /\ plateIdx <= Len(newPIDList)
    /\ LET movPlateRotSequence ==
               format_mprs_header(OUTFILEFORMAT, PlateID1,
                                  MPlateCode(mprsDict, infilePlateIdDict, PlateID1),
                                  MPlateName(mprsDict, PlateID1),
                                  FPlateCode(mprsDict, infilePlateIdDict, PlateID1))
       IN  outfile' = IF WritesMPRSHeader(OUTFILEFORMAT)
                      THEN Append(outfile, Write("mprs", PlateID1, 0, <<movPlateRotSequence>>))
                      ELSE outfile
    /\ pc' = "xover"
    /\ UNCHANGED <<OUTFILEFORMAT, ageFilterOld, rotLines, entryID, inputRawRotDict, uniquePIDsInput,
                   infilePlateIdDict, mprsDict, plateIDList, absRefPIDs, cardinalPIDList1,
                   newPIDList, plateIdx, stageIdx, outfileClosed, zeroRotations,
                   futureRotations, replacedRotations, errorfile, plateAcroFile, acroIdx,
                   replacedIDs>>

\* Line 321: detect_xover( stageList, PlateID1 ) leaves the list as it is, or
\* repairs one crossover in place. It is not given replacedRotations.
DetectXover ==
    /\ pc = "xover"
    /\ LET stageList == StageListOf(infilePlateIdDict, PlateID1)
       IN  \/ UNCHANGED <<infilePlateIdDict, replacedIDs>>
           \/ \E i \in XoverPositions(stageList) :
                /\ infilePlateIdDict' =
                       [infilePlateIdDict EXCEPT ![PlateID1] = XoverRepair(stageList, i)]
                /\ replacedIDs' = replacedIDs \cup {stageList[i].id}
    /\ stageIdx' = 1
    /\ pc' = "stage"
    /\ UNCHANGED <<OUTFILEFORMAT, ageFilterOld, rotLines, entryID, inputRawRotDict, uniquePIDsInput,
                   mprsDict, plateIDList, absRefPIDs, cardinalPIDList1, newPIDList,
                   plateIdx, outfile, outfileClosed, zeroRotations, futureRotations,
                   replacedRotations, errorfile, plateAcroFile, acroIdx>>

\* Lines 324 to 418, one iteration of the loop over the plate's stages.
StageStep ==
    /\ pc = "stage"
    /\ LET stageList == StageListOf(infilePlateIdDict, PlateID1)
           stage == stageList[stageIdx]
           formattedStageRotation ==
               FormatStageRotation(OUTFILEFORMAT, stage.inactive,
                                   FormatStageRotationData(PlateID1, stage),
                                   format_grot_mprs_comment(stage.toks))
           after == StageOutput(outfile, futureRotations, PlateID1, stage,
                                formattedStageRotation)
       IN  /\ zeroRotations' =
                  IF IsZeroRotation(stage)
                  THEN Append(zeroRotations, ZeroEntry(PlateID1, stage, formattedStageRotation))
                  ELSE zeroRotations
           /\ outfile' = after[1]
           /\ futureRotations' = after[2]
           /\ IF stageIdx < Len(stageList)
              THEN /\ stageIdx' = stageIdx + 1
                   /\ UNCHANGED <<pc, plateIdx>>
              ELSE /\ stageIdx' = 0
                   /\ plateIdx' = plateIdx + 1
                   /\ pc' = "plate"
    /\ UNCHANGED <<OUTFILEFORMAT, ageFilterOld, rotLines, entryID, inputRawRotDict, uniquePIDsInput,
                   infilePlateIdDict, mprsDict, plateIDList, absRefPIDs, cardinalPIDList1,
                   newPIDList, outfileClosed, replacedRotations, errorfile, plateAcroFile,
                   acroIdx, replacedIDs>>

\* Lines 421 to 424, after the last plate.
Bibliography ==
    /\ pc = "plate"
    /\ plateIdx > Len(newPIDList)
    /\ outfile' = IF WritesBibliography(OUTFILEFORMAT)
                  THEN Append(outfile, Write("bib", 0, 0, <<create_grot_bibinfo_section>>))
                  ELSE outfile
    /\ outfileClosed' = TRUE
    /\ pc' = "report"
    /\ UNCHANGED <<OUTFILEFORMAT, ageFilterOld, rotLines, entryID, inputRawRotDict, uniquePIDsInput,
                   infilePlateIdDict, mprsDict, plateIDList, absRefPIDs, cardinalPIDList1,
                   newPIDList, plateIdx, stageIdx, zeroRotations, futureRotations,
                   replacedRotations, errorfile, plateAcroFile, acroIdx, replacedIDs>>

\* Lines 436 to 458: the error report, and the head of the acronym table.
WriteErrorFile ==
    /\ pc = "report"
    /\ errorfile' = ErrorReport(replacedRotations, zeroRotations, futureRotations)
    /\ plateAcroFile' = <<"# Dictionary of PlateIDs, acronyms and names\n",
                          "# Generated by rotconv.py\n", "PlateID,Acronym,Name\n">>
    /\ acroIdx' = 1
    /\ pc' = IF Len(cardinalPIDList1) = 0 THEN "done" ELSE "acro"
    /\ UNCHANGED <<OUTFILEFORMAT, ageFilterOld, rotLines, entryID, inputRawRotDict, uniquePIDsInput,
                   infilePlateIdDict, mprsDict, plateIDList, absRefPIDs, cardinalPIDList1,
                   newPIDList, plateIdx, stageIdx, outfile, outfileClosed, zeroRotations,
                   futureRotations, replacedRotations, replacedIDs>>

\* Lines 460 to 463, one iteration: the two lookups have no fallback, and a
\* KeyError is not caught.
AcronymRow ==
    /\ pc = "acro"
    /\ LET plate == cardinalPIDList1[acroIdx]
           intpid == IntOf(plate)
       IN  IF HasMeta(mprsDict, intpid, "MPRS:code") /\ HasMeta(mprsDict, intpid, "MPRS:name")
           THEN /\ plateAcroFile' =
                       Append(plateAcroFile,
                              ToString(<<intpid, mprsDict[intpid]["MPRS:code"],
                                         mprsDict[intpid]["MPRS:name"]>>))
                /\ acroIdx' = acroIdx + 1
                /\ pc' = IF acroIdx < Len(cardinalPIDList1) THEN "acro" ELSE "done"
           ELSE /\ pc' = "KeyError"
                /\ UNCHANGED <<plateAcroFile, acroIdx>>
    /\ UNCHANGED <<OUTFILEFORMAT, ageFilterOld, rotLines, entryID, inputRawRotDict, uniquePIDsInput,
                   infilePlateIdDict, mprsDict, plateIDList, absRefPIDs, cardinalPIDList1,
                   newPIDList, plateIdx, stageIdx, outfile, outfileClosed, zeroRotations,
                   futureRotations, replacedRotations, errorfile, replacedIDs>>

Next ==
    \/ ReadLine
    \/ CollectPIDs
    \/ GeneratePlateIdDict
    \/ ListPIDs
    \/ SplitPIDs
    \/ SortPIDs
    \/ PlateHeader
    \/ DetectXover
    \/ StageStep
    \/ Bibliography
    \/ WriteErrorFile
    \/ AcronymRow

Spec == Init /\ [][Next]_vars

\* The ordering alone (lines 204 to 222), from any set of unique plate ids.
InitOrder ==
    /\ OUTFILEFORMAT = "GROT"
    /\ ageFilterOld = DefaultStartAge
    /\ rotLines = <<>>
    /\ pc = "list"
    /\ entryID = 0
    /\ inputRawRotDict = <<>>
    /\ uniquePIDsInput \in {S \in SUBSET PlateIDUniverse : Cardinality(S) <= MaxPlates}
    /\ infilePlateIdDict = <<>>
    /\ mprsDict = <<>>
    /\ plateIDList = <<>>
    /\ absRefPIDs = <<>>
    /\ cardinalPIDList1 = <<>>
    /\ newPIDList = <<>>
    /\ plateIdx = 0
    /\ stageIdx = 0
    /\ outfile = <<>>
    /\ outfileClosed = FALSE
    /\ zeroRotations = <<>>
    /\ futureRotations = <<>>
    /\ replacedRotations = <<>>
    /\ errorfile = <<>>
    /\ plateAcroFile = <<>>
    /\ acroIdx = 0
    /\ replacedIDs = {}

NextOrder == ListPIDs \/ SplitPIDs \/ SortPIDs

SpecOrder == InitOrder /\ [][NextOrder]_vars

\* The runs with -s/--startage given: main() is the same, the option's value
\* is drawn as well.
InitStartAge ==
    /\ OUTFILEFORMAT \in Formats
    /\ ageFilterOld \in StartAges
    /\ rotLines \in SeqsUpTo(Lines, MaxLines)
    /\ pc = "read"
    /\ Blank

SpecStartAge == InitStartAge /\ [][Next]_vars

(***************************************************************************)
(* Vocabulary of the properties                                            *)
(***************************************************************************)

\* The positions of the output file that hold a stage line of record id, and
\* the entries of a diagnostics list for it.
StageWrites(id) ==
    {i \in 1..Len(outfile) : outfile[i].kind = "stage" /\ outfile[i].id = id}
EntriesFor(list, id) == {i \in 1..Len(list) : list[i].id = id}

\* The parsed records, by entry id.
ParsedIDs == 1..Len(inputRawRotDict)

\* The stage of record id as the stage loop reads it (after detect_xover).
StageOfID(id) ==
    LET l == infilePlateIdDict[inputRawRotDict[id].pid]
    IN  l[CHOOSE i \in 1..Len(l) : l[i].id = id]

\* The number of decimal digits of n >= 1, and "the decimal string of a sorts
\* before that of b", by arithmetic: pad the shorter string with zeros on the
\* right and compare the numbers, a proper prefix first.
DecLen(n) == CHOOSE d \in 1..9 : 10^(d - 1) <= n /\ n < 10^d
LexBefore(a, b) ==
    LET w == IF DecLen(a) > DecLen(b) THEN DecLen(a) ELSE DecLen(b)
        pa == a * 10^(w - DecLen(a))
        pb == b * 10^(w - DecLen(b))
    IN  pa < pb \/ (pa = pb /\ DecLen(a) < DecLen(b))

(***************************************************************************)
(* C1: the plate processing order is a permutation of the unique plate     *)
(* ids, the ids below 100 first in ascending numeric order, then the ids   *)
(* from 100 on in the lexicographic order of their decimal strings;        *)
(* {1, 2, 101, 1011, 102} gives 1, 2, 101, 1011, 102.                      *)
(***************************************************************************)
C1_PlateOrder ==
    pc = "plate" =>
        /\ Len(newPIDList) = Cardinality(uniquePIDsInput)
        /\ Range(newPIDList) = uniquePIDsInput
        /\ \A i, j \in 1..Len(newPIDList) :
              i < j =>
                LET a == newPIDList[i]
                    b == newPIDList[j]
                IN  /\ b < 100 => (a < 100 /\ a < b)
                    /\ (a >= 100 /\ b >= 100) => LexBefore(a, b)
        /\ uniquePIDsInput = {1, 2, 101, 1011, 102}
              => newPIDList = <<1, 2, 101, 1011, 102>>

C1_Witness ==
    /\ pc = "plate"
    /\ uniquePIDsInput = {1, 2, 101, 1011, 102}
    /\ newPIDList = <<1, 2, 101, 1011, 102>>

(***************************************************************************)
(* C2: a record with age < 0 gets no line in the main output file and      *)
(* exactly one FutureRotation entry, in every format, active or inactive;  *)
(* a record with age >= 0 never gets a FutureRotation entry.               *)
(***************************************************************************)
C2_FutureRotations ==
    /\ \A i \in 1..Len(futureRotations) :
          inputRawRotDict[futureRotations[i].id].age < 0
    /\ \A i \in 1..Len(outfile) :
          outfile[i].kind = "stage" => inputRawRotDict[outfile[i].id].age >= 0
    /\ \A id \in ParsedIDs : Cardinality(EntriesFor(futureRotations, id)) <= 1
    /\ outfileClosed =>
          \A id \in ParsedIDs :
              inputRawRotDict[id].age < 0 =>
                  /\ Cardinality(EntriesFor(futureRotations, id)) = 1
                  /\ StageWrites(id) = {}

C2_Witness ==
    /\ outfileClosed
    /\ OUTFILEFORMAT = "ROT"
    /\ \E id \in ParsedIDs :
          /\ inputRawRotDict[id].age < 0
          /\ inputRawRotDict[id].inactive
          /\ Cardinality(EntriesFor(futureRotations, id)) = 1
          /\ StageWrites(id) = {}
    /\ \E id \in ParsedIDs : inputRawRotDict[id].age = 0 /\ StageWrites(id) # {}

(***************************************************************************)
(* C3: a record gets exactly one ZeroRotation entry if and only if         *)
(* age > 0, lat = 0 and angle = 0, whatever its longitude, and a flagged   *)
(* record is still written to the main output file.                        *)
(***************************************************************************)
C3_Flagged(r) == r.age > 0 /\ r.lat = 0 /\ r.angle = 0

C3_ZeroRotations ==
    /\ \A i \in 1..Len(zeroRotations) :
          C3_Flagged(inputRawRotDict[zeroRotations[i].id])
    /\ \A id \in ParsedIDs : Cardinality(EntriesFor(zeroRotations, id)) <= 1
    /\ outfileClosed =>
          \A id \in ParsedIDs :
              C3_Flagged(inputRawRotDict[id]) =>
                  /\ Cardinality(EntriesFor(zeroRotations, id)) = 1
                  /\ Cardinality(StageWrites(id)) = 1

C3_Witness ==
    /\ outfileClosed
    /\ \E id \in ParsedIDs :
          /\ inputRawRotDict[id].age = 10
          /\ inputRawRotDict[id].lat = 0
          /\ inputRawRotDict[id].lon = 1
          /\ inputRawRotDict[id].angle = 0
          /\ Cardinality(EntriesFor(zeroRotations, id)) = 1
          /\ Cardinality(StageWrites(id)) = 1
    /\ \E id \in ParsedIDs :
          /\ inputRawRotDict[id].age = 0
          /\ inputRawRotDict[id].lat = 0
          /\ inputRawRotDict[id].angle = 0
          /\ EntriesFor(zeroRotations, id) = {}

(***************************************************************************)
(* C4: the text of a stage line is, by (inactive, format): active and      *)
(* extended, data and comment joined by one space; active and legacy,      *)
(* data, " ! ", comment; inactive and extended, "#" and then the same data *)
(* and comment line; inactive and legacy, the literal                      *)
(* "999 0.0 0.0 0.0 0.0 999" and then a "#"-prefixed comment with the data *)
(* and the comment. Every selector but the extended one is legacy.         *)
(***************************************************************************)
C4_LineOf(extended, inactive, data, comment) ==
    CASE ~inactive /\ extended  -> <<data, " ", comment, "\n">>
      [] ~inactive /\ ~extended -> <<data, " ! ", comment, "\n">>
      [] inactive /\ extended   -> <<"#", data, " ", comment, "\n">>
      [] inactive /\ ~extended  ->
            <<"999 0.0 0.0 0.0 0.0 999", " ", "#", " ", data, " ", comment, "\n">>

C4_Expected(w) ==
    LET stage == StageOfID(w.id)
    IN  C4_LineOf(OUTFILEFORMAT = "GROT", stage.inactive,
                  ToString(<<w.pid, stage.age, stage.lat, stage.lon, stage.angle,
                             stage.PlateID2>>),
                  ToString(<<"comment", stage.toks>>))

C4_StageLineText ==
    /\ \A i \in 1..Len(outfile) :
          outfile[i].kind = "stage" => outfile[i].text = C4_Expected(outfile[i])
    /\ \A i \in 1..Len(futureRotations) :
          futureRotations[i].text =
              <<"Future rotation skipped | ">> \o C4_Expected(futureRotations[i])

C4_Witness ==
    /\ OUTFILEFORMAT = "PLATES4"
    /\ \E i, j \in 1..Len(outfile) :
          /\ outfile[i].kind = "stage"
          /\ outfile[j].kind = "stage"
          /\ outfile[i].text[1] = "999 0.0 0.0 0.0 0.0 999"
          /\ outfile[i].text[3] = "#"
          /\ inputRawRotDict[outfile[i].id].inactive
          /\ ~inputRawRotDict[outfile[j].id].inactive
          /\ outfile[j].text[2] = " ! "

(***************************************************************************)
(* C5: whenever detect_xover substitutes a value in a stage, a             *)
(* ReplacedRotation diagnostic for that record is in the replaced          *)
(* rotations section of the error report written at the end of the run.    *)
(***************************************************************************)
\* The replaced rotations section: what lies between the first banner and
\* the second.
C5_InReplacedSection(i) ==
    /\ errorfile[i].kind # "banner"
    /\ Cardinality({j \in 1..i : errorfile[j].kind = "banner"}) = 1

C5_ReplacedRotationsReported ==
    Len(errorfile) > 0 =>
        \A id \in replacedIDs :
            \E i \in 1..Len(errorfile) : C5_InReplacedSection(i) /\ errorfile[i].id = id

(***************************************************************************)
(* C6: in extended format each plate's header is written exactly once,     *)
(* before the plate's stage lines and after all lines of earlier plates,   *)
(* in processing order, and the bibliography block exactly once, after     *)
(* the last stage line; in legacy format neither is ever written.          *)
(***************************************************************************)
C6_Pos(p) == CHOOSE k \in 1..Len(newPIDList) : newPIDList[k] = p
C6_PlateWrites == {i \in 1..Len(outfile) : outfile[i].kind \in {"mprs", "stage"}}
C6_Headers(p) == {i \in 1..Len(outfile) : outfile[i].kind = "mprs" /\ outfile[i].pid = p}
C6_Bibs == {i \in 1..Len(outfile) : outfile[i].kind = "bib"}

C6_HeadersAndBibliography ==
    IF OUTFILEFORMAT = "GROT"
    THEN /\ \A i, j \in C6_PlateWrites :
               i < j =>
                  /\ C6_Pos(outfile[i].pid) <= C6_Pos(outfile[j].pid)
                  /\ outfile[i].pid = outfile[j].pid => outfile[j].kind = "stage"
         /\ \A i \in C6_PlateWrites :
               outfile[i].kind = "stage" =>
                   \E h \in C6_Headers(outfile[i].pid) : h < i
         /\ \A k \in 1..Len(newPIDList) :
               Cardinality(C6_Headers(newPIDList[k])) =
                   IF k < plateIdx \/ (k = plateIdx /\ pc \in {"xover", "stage"})
                   THEN 1 ELSE 0
         /\ IF outfileClosed
            THEN C6_Bibs = {Len(outfile)}
            ELSE C6_Bibs = {}
    ELSE \A i \in 1..Len(outfile) : outfile[i].kind \notin {"mprs", "bib"}

C6_Witness ==
    /\ OUTFILEFORMAT = "GROT"
    /\ outfileClosed
    /\ Len(newPIDList) = 2
    /\ \A k \in 1..2 :
          /\ Cardinality(C6_Headers(newPIDList[k])) = 1
          /\ \E i \in 1..Len(outfile) :
                outfile[i].kind = "stage" /\ outfile[i].pid = newPIDList[k]
    /\ outfile[Len(outfile)].kind = "bib"

(***************************************************************************)
(* C7: no record is silently lost: the grouped stage lists hold as many    *)
(* records as lines were parsed, and when the main output is complete      *)
(* every parsed record has exactly one stage line (age >= 0) or exactly    *)
(* one FutureRotation entry (age < 0), never both and never neither.       *)
(***************************************************************************)
RECURSIVE C7_Grouped(_, _)
C7_Grouped(dict, pids) ==
    IF pids = {} THEN 0
    ELSE LET p == CHOOSE q \in pids : TRUE
         IN  Len(dict[p]) + C7_Grouped(dict, pids \ {p})

C7_NoRecordLost ==
    /\ pc \notin {"read", "group", "ParseError"} =>
          /\ DOMAIN infilePlateIdDict = uniquePIDsInput
          /\ C7_Grouped(infilePlateIdDict, uniquePIDsInput) = Len(inputRawRotDict)
          /\ Len(inputRawRotDict) = Len(rotLines)
    /\ outfileClosed =>
          \A id \in ParsedIDs :
              /\ Cardinality(StageWrites(id))
                    + Cardinality(EntriesFor(futureRotations, id)) = 1
              /\ Cardinality(StageWrites(id)) = 1 <=> inputRawRotDict[id].age >= 0

C7_Witness ==
    /\ outfileClosed
    /\ Len(inputRawRotDict) = 2
    /\ \E a, b \in ParsedIDs :
          /\ inputRawRotDict[a].age < 0
          /\ inputRawRotDict[b].age >= 0
          /\ inputRawRotDict[a].pid # inputRawRotDict[b].pid
          /\ Cardinality(StageWrites(b)) = 1
          /\ Cardinality(EntriesFor(futureRotations, a)) = 1

(***************************************************************************)
(* C8: missing plate metadata is never fatal: a plate without plate code,  *)
(* plate name or fixed-plate code, or without any metadata entry, has the  *)
(* fields resolved by the fallbacks, and the run completes all outputs,    *)
(* the plate acronym table included, without raising.                      *)
(***************************************************************************)
C8_MissingMetadataNeverFatal ==
    /\ pc # "KeyError"
    /\ pc = "done" => Len(plateAcroFile) = 3 + Len(cardinalPIDList1)

(***************************************************************************)
(* C9: a line with an unconvertible numeric field does not abort the run:  *)
(* the line is captured for the error report and left out of the           *)
(* structured processing, and the other lines are still parsed, grouped    *)
(* and written.                                                            *)
(***************************************************************************)
C9_ParseErrorNonFatal ==
    /\ pc # "ParseError"
    /\ pc = "done" =>
          \A n \in 1..Len(rotLines) :
              IF rotLines[n].ok
              THEN \E id \in ParsedIDs :
                      inputRawRotDict[id] = readROT(rotLines[n])
                      /\ StageWrites(id) \cup EntriesFor(futureRotations, id) # {}
              ELSE \E i \in 1..Len(errorfile) :
                      errorfile[i].kind = "parse" /\ errorfile[i].id = n

(***************************************************************************)
(* C10: within a plate the stages are processed and written in the order   *)
(* of the input file: the output lines of two records of the same plate    *)
(* are in the order of their input lines; the stage list is never sorted   *)
(* by age, and the crossover step neither reorders nor deletes stages.     *)
(***************************************************************************)
C10_FileOrder ==
    /\ \A i, j \in 1..Len(outfile) :
          (/\ i < j
           /\ outfile[i].kind = "stage"
           /\ outfile[j].kind = "stage"
           /\ outfile[i].pid = outfile[j].pid) => outfile[i].id < outfile[j].id
    /\ \A p \in DOMAIN infilePlateIdDict :
          LET l == infilePlateIdDict[p]
          IN  /\ \A i, j \in 1..Len(l) : i < j => l[i].id < l[j].id
              /\ {l[i].id : i \in 1..Len(l)} =
                     {id \in ParsedIDs : inputRawRotDict[id].pid = p}

C10_Witness ==
    \E i, j \in 1..Len(outfile) :
        /\ i < j
        /\ outfile[i].kind = "stage"
        /\ outfile[j].kind = "stage"
        /\ outfile[i].pid = outfile[j].pid
        /\ outfile[i].id < outfile[j].id
        /\ inputRawRotDict[outfile[i].id].age > inputRawRotDict[outfile[j].id].age
        /\ outfile[j].id \in replacedIDs

(***************************************************************************)
(* C11: the oldest-age option -s/--startage filters the output by age:     *)
(* set to A, every moving plate rotation sequence is truncated at A, and   *)
(* no stage line with an age greater than A is written to the main output  *)
(* file.                                                                   *)
(***************************************************************************)
C11_StartAgeTruncates ==
    \A i \in 1..Len(outfile) :
        outfile[i].kind = "stage" =>
            inputRawRotDict[outfile[i].id].age <= ageFilterOld

====
